---- MODULE Spec2Model ----
(***************************************************************************)
(* find_timezones.py: load stations.json, collect the distinct non-null    *)
(* 'timezone' values of its records, return them sorted, print them.       *)
(*                                                                         *)
(* Text values are sequences over two code points, 1 < 2, so that Python's *)
(* default string ordering (lexicographic by code point) is computed, not  *)
(* assumed.  JSON values that are not text (numbers, booleans, arrays,     *)
(* objects) are modelled with the Python semantics that decide what the    *)
(* program does with them: hashability, equality, and ordering.            *)
(***************************************************************************)
EXTENDS Integers, Sequences, FiniteSets, TLC

\* ------------------------------------------------------------------ bounds
MaxRecords == 3
MaxStrLen == 1

\* ------------------------------------------------------------- JSON values
\* A parsed JSON value as the program sees it in a 'timezone' field:
\* t is the Python type, s the text (for str), n the numeric value.
Str(s) == [t |-> "str", s |-> s, n |-> 0]
Num(n) == [t |-> "int", s |-> <<>>, n |-> n]
True == [t |-> "bool", s |-> <<>>, n |-> 1]
None == [t |-> "NoneType", s |-> <<>>, n |-> 0]
\* an array; an object in the field behaves the same (unhashable)
List == [t |-> "list", s |-> <<>>, n |-> 0]
\* the key 'timezone' is not in the record
Absent == [t |-> "absent", s |-> <<>>, n |-> 0]

\* two code points, ordered as the integers are
Chars == {1, 2}
Texts == UNION {[1..l -> Chars] : l \in 0..MaxStrLen}
TextValues == {Str(s) : s \in Texts}
NonTextValues == {Num(1), Num(2), True, List}
TimezoneFields == {Absent, None} \cup TextValues \cup NonTextValues

\* One entry of the top-level array: a JSON object (a dict, of which only
\* the 'timezone' field is consulted) or something that is not an object.
Object(tz) == [e |-> "dict", tz |-> tz]
NonObject(ty) == [e |-> ty, tz |-> Absent]
Entries == {Object(tz) : tz \in TimezoneFields} \cup {NonObject("int")}

RECURSIVE SeqsUpTo(_, _)
SeqsUpTo(S, n) ==
    IF n = 0 THEN {<<>>}
    ELSE LET shorter == SeqsUpTo(S, n - 1)
         IN shorter \cup {Append(q, x) : q \in {r \in shorter : Len(r) = n - 1}, x \in S}

\* The top-level JSON value.  items is what iterating it yields: the
\* entries of an array, the keys of an object, the characters of a string.
Array(items) == [top |-> "list", items |-> items]
TopObject(items) == [top |-> "dict", items |-> items]
TopString(items) == [top |-> "str", items |-> items]
TopScalar(ty) == [top |-> ty, items |-> <<>>]
Tops ==
    {Array(items) : items \in SeqsUpTo(Entries, MaxRecords)}
    \cup {TopObject(<<>>), TopObject(<<NonObject("str")>>)}
    \cup {TopString(<<>>), TopString(<<NonObject("str")>>)}
    \cup {TopScalar("int"), TopScalar("bool"), TopScalar("NoneType")}

\* stations.json on disk.
File(kind, value) == [kind |-> kind, value |-> value]
Files ==
    {File("absent", TopScalar("NoneType")), File("unreadable", TopScalar("NoneType")),
     File("malformed", TopScalar("NoneType"))}
    \cup {File("json", v) : v \in Tops}

\* ------------------------------------------------------- Python semantics
IsNumeric(v) == v.t \in {"int", "bool"}

\* set.add hashes its argument: lists and dicts are unhashable.
Hashable(v) == v.t \notin {"list", "dict"}

\* == between set members: True == 1, otherwise structural.
PyEq(a, b) == IF IsNumeric(a) /\ IsNumeric(b) THEN a.n = b.n ELSE a = b

\* < is defined between two str and between two numbers only.
ComparableAnyTypes(a, b) == TRUE
Comparable(a, b) == (a.t = "str" /\ b.t = "str") \/ (IsNumeric(a) /\ IsNumeric(b))

RECURSIVE StrLess(_, _)
StrLess(a, b) ==
    IF b = <<>> THEN FALSE
    ELSE IF a = <<>> THEN TRUE
    ELSE IF a[1] < b[1] THEN TRUE
    ELSE IF a[1] > b[1] THEN FALSE
    ELSE StrLess(Tail(a), Tail(b))

PyLessReversed(a, b) == IF a.t = "str" THEN StrLess(b.s, a.s) ELSE b.n < a.n
PyLess(a, b) == IF a.t = "str" THEN StrLess(a.s, b.s) ELSE a.n < b.n

\* dict.get('timezone'): the value, or None when the key is missing.
DictGetDefaultEmpty(station) == IF station.tz = Absent THEN Str(<<>>) ELSE station.tz
DictGet(station) == IF station.tz = Absent THEN None ELSE station.tz

\* 'timezone is not None'
IsTruthy(v) == v # None /\ v # Str(<<>>)
IsNotNone(v) == v # None

\* set.add
SetAddKeepLast(s, x) == {x}
SetAdd(s, x) == IF \E e \in s : PyEq(e, x) THEN s ELSE s \cup {x}

\* list(timezones): the elements in the set's iteration order, which for
\* strings changes from process to process (hash randomisation).
ListsOf(s) == {l \in [1..Cardinality(s) -> s] : \A i, j \in 1..Cardinality(s) : l[i] = l[j] => i = j}

\* sorted(): insertion by < into the sorted prefix; a comparison between
\* values that have no < raises TypeError.
Ok(v) == [ok |-> TRUE, v |-> v]
Raised == [ok |-> FALSE, v |-> <<>>]

RECURSIVE InsertSorted(_, _)
InsertSorted(x, s) ==
    IF s = <<>> THEN Ok(<<x>>)
    ELSE LET last == s[Len(s)]
         IN IF ~Comparable(x, last) THEN Raised
            ELSE IF PyLess(x, last)
                 THEN LET r == InsertSorted(x, SubSeq(s, 1, Len(s) - 1))
                      IN IF r.ok THEN Ok(Append(r.v, last)) ELSE r
                 ELSE Ok(Append(s, x))

RECURSIVE SortPrefix(_, _)
SortPrefix(l, n) ==
    IF n = 0 THEN Ok(<<>>)
    ELSE LET r == SortPrefix(l, n - 1)
         IN IF r.ok THEN InsertSorted(l[n], r.v) ELSE r

PyUnsorted(l) == Ok(l)
PySorted(l) == SortPrefix(l, Len(l))

\* What print() writes: one line per call.
HeaderLineOfRecords(seq, records) == [kind |-> "header", n |-> Len(records), v |-> None]
HeaderLine(seq, records) == [kind |-> "header", n |-> Len(seq), v |-> None]
ValueLine(v) == [kind |-> "line", n |-> 0, v |-> v]

\* ------------------------------------------------------------------- state
VARIABLES
    file,              \* stations.json
    pc,                \* position in the program
    f,                 \* the file handle: "none", "open", "closed"
    stations,          \* the parsed value
    idx,               \* records consumed by the for loop
    timezones,         \* the Timezone Set
    lst,               \* list(timezones)
    unique_timezones,  \* the value returned to __main__
    err,               \* the exception that ended the run, or "none"
    out,               \* standard output, a sequence of lines
    run,               \* which run of the program this is
    first              \* outcome of the first run, once a second has begun

vars == <<file, pc, f, stations, idx, timezones, lst, unique_timezones, err, out, run, first>>

NoStations == TopScalar("unbound")
NoOutcome == [ret |-> Raised, err |-> "none", out |-> <<>>]

Fresh ==
    /\ pc = "open"
    /\ f = "none"
    /\ stations = NoStations
    /\ idx = 0
    /\ timezones = {}
    /\ lst = <<>>
    /\ unique_timezones = Raised
    /\ err = "none"
    /\ out = <<>>

Init ==
    /\ file \in Files
    /\ Fresh
    /\ run = 1
    /\ first = NoOutcome

Fail(e) == pc' = "failed" /\ err' = e

\* line 4: open('stations.json', 'r')
OpenPrintsBanner ==
    /\ pc = "open"
    /\ out' = <<HeaderLine(<<>>, <<>>)>>
    /\ IF file.kind = "absent" THEN Fail("FileNotFoundError") /\ f' = f
       ELSE IF file.kind = "unreadable" THEN Fail("PermissionError") /\ f' = f
       ELSE pc' = "load" /\ f' = "open" /\ err' = err
    /\ UNCHANGED <<file, stations, idx, timezones, lst, unique_timezones, run, first>>

Open ==
    /\ pc = "open"
    /\ IF file.kind = "absent" THEN Fail("FileNotFoundError") /\ f' = f
       ELSE IF file.kind = "unreadable" THEN Fail("PermissionError") /\ f' = f
       ELSE pc' = "load" /\ f' = "open" /\ err' = err
    /\ UNCHANGED <<file, stations, idx, timezones, lst, unique_timezones, out, run, first>>

\* line 5: json.load(f), inside the with block
Load ==
    /\ pc = "load"
    /\ pc' = "exit_with"
    /\ IF file.kind = "malformed"
       THEN err' = "JSONDecodeError" /\ stations' = stations
       ELSE err' = err /\ stations' = file.value
    /\ UNCHANGED <<file, f, idx, timezones, lst, unique_timezones, out, run, first>>

\* lines 4-5: leaving the with block closes f, whether or not json.load raised
ExitWithLeak ==
    /\ pc = "exit_with"
    /\ f' = IF err = "none" THEN "closed" ELSE f
    /\ pc' = IF err = "none" THEN "set" ELSE "failed"
    /\ UNCHANGED <<file, stations, idx, timezones, lst, unique_timezones, err, out, run, first>>

ExitWith ==
    /\ pc = "exit_with"
    /\ f' = "closed"
    /\ pc' = IF err = "none" THEN "set" ELSE "failed"
    /\ UNCHANGED <<file, stations, idx, timezones, lst, unique_timezones, err, out, run, first>>

\* line 7: timezones = set()
NewSet ==
    /\ pc = "set"
    /\ timezones' = {}
    /\ pc' = "for"
    /\ UNCHANGED <<file, f, stations, idx, lst, unique_timezones, err, out, run, first>>

\* for ... in stations: lists, dicts and strings can be iterated
Iterable(v) == v.top \in {"list", "dict", "str"}

\* station.get: only a dict has the method
HasGetAll(station) == TRUE
HasGet(station) == station.e = "dict"

\* line 9: iter(stations) on a value that is not iterable
ForNotIterable ==
    /\ pc = "for"
    /\ ~Iterable(stations)
    /\ Fail("TypeError")
    /\ UNCHANGED <<file, f, stations, idx, timezones, lst, unique_timezones, out, run, first>>

\* lines 10-12: the loop body on one station, from the set so far
Body(tzs, station) ==
    IF ~HasGet(station) THEN [err |-> "AttributeError", timezones |-> tzs]
    ELSE LET timezone == DictGet(station)
         IN IF IsNotNone(timezone)
            THEN IF Hashable(timezone)
                 THEN [err |-> "none", timezones |-> SetAdd(tzs, timezone)]
                 ELSE [err |-> "TypeError", timezones |-> tzs]
            ELSE [err |-> "none", timezones |-> tzs]

\* lines 9-12: one pass of the loop
ForBody ==
    /\ pc = "for"
    /\ Iterable(stations)
    /\ idx < Len(stations.items)
    /\ LET r == Body(timezones, stations.items[idx + 1])
       IN IF r.err = "none"
          THEN timezones' = r.timezones /\ idx' = idx + 1 /\ UNCHANGED <<pc, err>>
          ELSE Fail(r.err) /\ UNCHANGED <<idx, timezones>>
    /\ UNCHANGED <<file, f, stations, lst, unique_timezones, out, run, first>>

\* line 9: the iterator is exhausted
ForExhausted ==
    /\ pc = "for"
    /\ Iterable(stations)
    /\ idx = Len(stations.items)
    /\ pc' = "list"
    /\ UNCHANGED <<file, f, stations, idx, timezones, lst, unique_timezones, err, out, run, first>>

\* line 14: list(timezones)
ToList ==
    /\ pc = "list"
    /\ lst' \in ListsOf(timezones)
    /\ pc' = "sorted"
    /\ UNCHANGED <<file, f, stations, idx, timezones, unique_timezones, err, out, run, first>>

\* lines 14, 17: sorted(...) and the return into unique_timezones; the
\* temporary list does not outlive the call
SortAndReturn ==
    /\ pc = "sorted"
    /\ LET r == PySorted(lst)
       IN IF r.ok
          THEN unique_timezones' = r /\ pc' = "header" /\ err' = err
          ELSE Fail("TypeError") /\ unique_timezones' = unique_timezones
    /\ lst' = <<>>
    /\ UNCHANGED <<file, f, stations, idx, timezones, out, run, first>>

\* line 19: print(f"Found {len(unique_timezones)} unique timezones:")
PrintHeader ==
    /\ pc = "header"
    /\ out' = Append(out, HeaderLine(unique_timezones.v, stations.items))
    /\ pc' = "lines"
    /\ UNCHANGED <<file, f, stations, idx, timezones, lst, unique_timezones, err, run, first>>

\* lines 20-21: print(timezone) for the next element
PrintLine ==
    /\ pc = "lines"
    /\ Len(out) - 1 < Len(unique_timezones.v)
    /\ out' = Append(out, ValueLine(unique_timezones.v[Len(out)]))
    /\ UNCHANGED <<file, pc, f, stations, idx, timezones, lst, unique_timezones, err, run, first>>

\* line 20: the loop over unique_timezones is exhausted; normal exit
Exit ==
    /\ pc = "lines"
    /\ Len(out) - 1 = Len(unique_timezones.v)
    /\ pc' = "done"
    /\ UNCHANGED <<file, f, stations, idx, timezones, lst, unique_timezones, err, out, run, first>>

Next ==
    \/ Open
    \/ Load
    \/ ExitWith
    \/ NewSet
    \/ ForNotIterable
    \/ ForBody
    \/ ForExhausted
    \/ ToList
    \/ SortAndReturn
    \/ PrintHeader
    \/ PrintLine
    \/ Exit

Spec == Init /\ [][Next]_vars

\* The program is started again on the file as the first run left it.
\* Nothing but the file survives a process.
Rerun ==
    /\ pc \in {"done", "failed"}
    /\ run = 1
    /\ run' = 2
    /\ first' = [ret |-> unique_timezones, err |-> err, out |-> out]
    /\ pc' = "open"
    /\ f' = "none"
    /\ stations' = NoStations
    /\ idx' = 0
    /\ timezones' = {}
    /\ lst' = <<>>
    /\ unique_timezones' = Raised
    /\ err' = "none"
    /\ out' = <<>>
    /\ UNCHANGED file

NextTwice == Next \/ Rerun

SpecTwice == Init /\ [][NextTwice]_vars

\* ------------------------------------------- the function, as one value
\* lines 9-12 over the first n items
RECURSIVE Collect(_, _)
Collect(items, n) ==
    IF n = 0 THEN [err |-> "none", timezones |-> {}]
    ELSE LET c == Collect(items, n - 1)
         IN IF c.err = "none" THEN Body(c.timezones, items[n]) ELSE c

\* one iteration order of a set
RECURSIVE SomeList(_)
SomeList(s) ==
    IF s = {} THEN <<>>
    ELSE LET x == CHOOSE y \in s : TRUE IN <<x>> \o SomeList(s \ {x})

\* lines 7-14 on a parsed value: what is returned, or the exception raised
FindUniqueTimezones(v) ==
    IF ~Iterable(v) THEN [ret |-> Raised, err |-> "TypeError"]
    ELSE LET c == Collect(v.items, Len(v.items))
         IN IF c.err # "none" THEN [ret |-> Raised, err |-> c.err]
            ELSE LET r == PySorted(SomeList(c.timezones))
                 IN IF r.ok THEN [ret |-> r, err |-> "none"]
                    ELSE [ret |-> Raised, err |-> "TypeError"]

\* ------------------------------------------------------------ the input
Records == file.value.items
Ret == unique_timezones.v
Ended == pc \in {"done", "failed"}

\* a JSON array of objects
ArrayOfObjects ==
    /\ file.kind = "json"
    /\ file.value.top = "list"
    /\ \A i \in 1..Len(Records) : Records[i].e = "dict"

\* a JSON array of objects whose timezone, when present, is a string or null
ValidInput ==
    /\ ArrayOfObjects
    /\ \A i \in 1..Len(Records) : Records[i].tz \in {Absent, None} \cup TextValues

NonNullTimezones == {Records[i].tz : i \in 1..Len(Records)} \ {Absent, None}

Range(q) == {q[i] : i \in 1..Len(q)}

\* ------------------------------------------------------------------ claims

\* C1: on a valid input the returned sequence is strictly ascending in
\* lexicographic (code point) order, hence holds no value twice.
C1_SortedNoDuplicates ==
    (ValidInput /\ unique_timezones.ok) =>
        \A i, j \in 1..Len(Ret) : i < j => StrLess(Ret[i].s, Ret[j].s)

C1_Witness ==
    /\ ValidInput /\ pc = "done" /\ Len(Ret) >= 2
    /\ \E i, j \in 1..Len(Records) :
          i < j /\ Records[i].tz \in TextValues /\ Records[j].tz \in TextValues
          /\ StrLess(Records[j].tz.s, Records[i].tz.s)
    /\ \E i, j \in 1..Len(Records) : i < j /\ Records[i].tz = Records[j].tz

\* C2: on a valid input the values returned are exactly the non-null
\* timezone values of the records, the empty string included.
C2_ExactlyNonNullTimezones ==
    (ValidInput /\ unique_timezones.ok) => Range(Ret) = NonNullTimezones

C2_Witness ==
    /\ ValidInput /\ pc = "done"
    /\ Str(<<>>) \in NonNullTimezones
    /\ Cardinality(NonNullTimezones) >= 2
    /\ \E i \in 1..Len(Records) : Records[i].tz = None

\* C3: a record without the timezone key, or with a null timezone, leaves
\* the Timezone Set unchanged; the outcome on an array equals the outcome
\* on the array with such records removed; only such records (or none)
\* give the empty sequence.
Contributes(entry) == ~(entry.e = "dict" /\ entry.tz \in {Absent, None})
Filtered == SelectSeq(Records, Contributes)

C3_FilteredOutcome ==
    (file.kind = "json" /\ file.value.top = "list" /\ Ended) =>
        /\ [ret |-> unique_timezones, err |-> err] = FindUniqueTimezones(Array(Filtered))
        /\ Filtered = <<>> => (err = "none" /\ unique_timezones = Ok(<<>>))

C3_NullAndMissingContributeNothing ==
    /\ []C3_FilteredOutcome
    /\ [][(pc = "for" /\ idx < Len(stations.items) /\ idx' = idx + 1
           /\ ~Contributes(stations.items[idx + 1])) => timezones' = timezones]_vars

C3_Witness ==
    /\ ValidInput /\ pc = "done" /\ Len(Ret) = 1
    /\ \E i \in 1..Len(Records) : Records[i].tz = None
    /\ \E i \in 1..Len(Records) : Records[i].tz = Absent

\* C4: on a valid input the output is the header line with N = the length
\* of the returned sequence, then its N elements in order, one per line;
\* the header comes first and nothing else is printed.
ExpectedOutput(seq) ==
    [k \in 1..(Len(seq) + 1) |->
        IF k = 1 THEN [kind |-> "header", n |-> Len(seq), v |-> None]
        ELSE [kind |-> "line", n |-> 0, v |-> seq[k - 1]]]

C4_OutputIsHeaderThenSortedLines ==
    ValidInput =>
        /\ Len(out) <= Len(Ret) + 1
        /\ out = SubSeq(ExpectedOutput(Ret), 1, Len(out))
        /\ pc = "done" => out = ExpectedOutput(Ret)

C4_Witness ==
    /\ ValidInput /\ pc = "done"
    /\ Len(Ret) >= 2 /\ Len(Ret) < Len(Records)
    /\ Len(out) = Len(Ret) + 1

\* C5: a run that fails (open, parse, iteration or sort) has printed
\* nothing to standard output.
C5_FailurePrintsNothing == (pc = "failed" \/ err # "none") => out = <<>>

C5_Witness ==
    /\ pc = "failed" /\ err = "TypeError"
    /\ ArrayOfObjects /\ Len(Records) >= 2 /\ idx = Len(Records)
    /\ f = "closed"

\* C6: an array of objects in which some timezone value is present, not
\* null and not text.
HasNonTextTimezone ==
    ArrayOfObjects /\ \E i \in 1..Len(Records) : Records[i].tz \in NonTextValues

HasUnhashableTimezone == \E i \in 1..Len(Records) : ~Hashable(Records[i].tz)
HasTextTimezone == \E i \in 1..Len(Records) : Records[i].tz \in TextValues
HasNumericTimezone == \E i \in 1..Len(Records) : IsNumeric(Records[i].tz)

\* C6 as stated: every such input fails with a type error and returns no
\* sequence.
C6_NonTextAlwaysTypeError ==
    HasNonTextTimezone =>
        /\ ~unique_timezones.ok
        /\ Ended => err = "TypeError"

\* C6 amended: such an input fails with TypeError exactly when some
\* timezone value is an array or object, or the values include both a text
\* value and a number or boolean; otherwise the numbers and booleans are
\* returned, distinct by numeric equality, in ascending numeric order.
C6_NonTextTypeErrorOnlyIfUnhashableOrMixed ==
    (HasNonTextTimezone /\ Ended) =>
        IF HasUnhashableTimezone \/ (HasTextTimezone /\ HasNumericTimezone)
        THEN err = "TypeError" /\ ~unique_timezones.ok /\ pc = "failed"
        ELSE /\ err = "none" /\ unique_timezones.ok /\ pc = "done"
             /\ \A i, j \in 1..Len(Ret) : i < j => Ret[i].n < Ret[j].n
             /\ {Ret[i].n : i \in 1..Len(Ret)} = {v.n : v \in NonNullTimezones}

C6_Witness ==
    /\ HasNonTextTimezone /\ ~HasUnhashableTimezone
    /\ HasTextTimezone /\ HasNumericTimezone
    /\ pc = "failed" /\ err = "TypeError" /\ idx = Len(Records)

\* C7: the top-level value is not a sequence of objects.
NotSequenceOfObjects == file.kind = "json" /\ ~ArrayOfObjects
EmptyObjectOrString == file.value.top \in {"dict", "str"} /\ Records = <<>>

\* C7 as stated: every such input, the empty object and the empty string
\* included, fails with a shape/type error and returns no sequence.
C7_NotSequenceOfObjectsAlwaysFails ==
    NotSequenceOfObjects =>
        /\ ~unique_timezones.ok
        /\ Ended => err \in {"TypeError", "AttributeError"}

\* C7 amended: every such input fails and returns no sequence (TypeError
\* for a number, boolean or null; AttributeError for a non-empty object or
\* string; AttributeError or TypeError for an array with an entry that is
\* not an object), except the empty object and the empty string, on which
\* the loop body never runs and the empty sequence is returned.
C7_NotSequenceOfObjectsFailsUnlessEmpty ==
    NotSequenceOfObjects =>
        IF EmptyObjectOrString
        THEN Ended => (pc = "done" /\ err = "none" /\ unique_timezones = Ok(<<>>))
        ELSE /\ ~unique_timezones.ok
             /\ pc # "done"
             /\ Ended => /\ err \in {"TypeError", "AttributeError"}
                         /\ ~Iterable(file.value) => err = "TypeError"
                         /\ file.value.top \in {"dict", "str"} => err = "AttributeError"
                         /\ (file.value.top = "list" /\ ~HasUnhashableTimezone)
                               => err = "AttributeError"

C7_Witness ==
    /\ NotSequenceOfObjects /\ file.value.top = "list"
    /\ pc = "failed" /\ err = "AttributeError"
    /\ idx >= 1 /\ timezones # {}

\* C8: the handle is open only during the load step, is released on every
\* exit path and before the first record is examined; a failed open
\* acquires no handle.
C8_HandleScopedToLoad ==
    /\ f = "open" => pc \in {"load", "exit_with"}
    /\ pc \in {"set", "for", "list", "sorted", "header", "lines", "done"} => f = "closed"
    /\ pc = "failed" =>
          f = IF err \in {"FileNotFoundError", "PermissionError"} THEN "none" ELSE "closed"

C8_Witness == pc = "failed" /\ err = "JSONDecodeError" /\ f = "closed"

\* C9: the file is never modified, and a second run on it ends as the
\* first did: same returned sequence or same failure, same output.
C9_SecondRunSame ==
    (run = 2 /\ Ended) => first = [ret |-> unique_timezones, err |-> err, out |-> out]

C9_Idempotent == []C9_SecondRunSame /\ [][file' = file]_vars

C9_Witness ==
    /\ run = 2 /\ pc = "done" /\ ValidInput
    /\ Len(Ret) >= 2 /\ Len(first.out) = Len(Ret) + 1

\* C10: on a valid input the result is the same for every permutation of
\* the records and for the input with any record repeated, and is no
\* longer than the number of records.
Permuted ==
    {[i \in 1..Len(Records) |-> Records[p[i]]] : p \in Permutations(1..Len(Records))}
Repeated == {Append(Records, Records[i]) : i \in 1..Len(Records)}

C10_OrderAndMultiplicityIrrelevant ==
    (ValidInput /\ pc = "done") =>
        /\ \A items \in Permuted \cup Repeated :
              FindUniqueTimezones(Array(items)) = [ret |-> unique_timezones, err |-> "none"]
        /\ Len(Ret) <= Len(Records)

C10_Witness ==
    /\ ValidInput /\ pc = "done"
    /\ Len(Records) >= 3 /\ Len(Ret) >= 2
    /\ \E i \in 1..(Len(Records) - 1) :
          Records[i].tz \in TextValues /\ Records[i + 1].tz \in TextValues
          /\ StrLess(Records[i + 1].tz.s, Records[i].tz.s)

====
